---- MODULE Spec2Model ----
(***************************************************************************)
(* Model of the leadership knowledge base: the vector index kept by        *)
(* KnowledgeBase (knowledge_base.py), the front ends that rebuild it       *)
(* (api_service.py, slack_bot.py, streamlit_app.py, main.py) and the query *)
(* path of QASystem.answer_question (qa_system.py).                        *)
(*                                                                         *)
(* Distances and thresholds are fixed-point numbers in tenths (0.7 is 7).  *)
(* A confidence is kept as an exact fraction num/den.                      *)
(***************************************************************************)
EXTENDS Integers, Sequences, FiniteSets, TLC

\* ------------------------------------------------------------------ bounds
\* longest chunk list handed to one update_documents / add_documents call
MaxLen == 3
\* largest batch_size passed to a direct add_documents call
MaxBatch == 2
\* number of update_documents / add_documents calls in one behaviour
MaxCalls == 2
\* number of entries of the index a query-only behaviour starts from
MaxIndex == 3
\* largest max_chunks / max_context_items a query is started with
MaxChunks == 5
\* batch_size of add_documents as update_documents calls it (100 in the
\* code), scaled to the list lengths of this model
BatchSize == 2
\* longest text of the exhaustive part of the texts
MaxText == 4
\* longest text of a sync behaviour
MaxSyncText == 2
\* number of entries of the index a read-only behaviour starts from
MaxEntries == 11
\* largest max_suggestions / max_results of a type-restricted search
MaxSuggestions == 3
\* the clock of a cache behaviour runs from 0 to MaxTime
MaxTime == 4
\* cache_expiry of GoogleDriveClient (one hour in the code), in clock ticks
CacheExpiry == 2

\* -------------------------------------------------------- program constants
\* 1.0 in tenths
One == 10
\* relevance_threshold default of get_relevant_context, 0.7
DefaultThreshold == 7
\* max_context_items default of answer_question
DefaultMaxContext == 5

\* --------------------------------------------------------------- the data
DocumentTypes == {"faq", "meeting_notes", "general"}
\* distances the similarity search reports, in tenths
Distances == {3, 7, 9}
\* a chunk as far as the index and the query path look at it
Chunk == [document_type : DocumentTypes, dist : Distances]
\* the n-th chunk process_all_documents produces in a rebuild behaviour:
\* FAQ and meeting-notes chunks alternate
SyncChunk(n) == IF n % 2 = 1 THEN [document_type |-> "faq", dist |-> 3]
                ELSE [document_type |-> "meeting_notes", dist |-> 7]
\* the chunk lists a front end hands to the knowledge base: the first len
\* chunks, for every len up to MaxLen
ChunkLists == {[n \in 1..len |-> SyncChunk(n)] : len \in 0..MaxLen}
\* front ends that hold a KnowledgeBase on the same persist directory
Writers == {"api", "slack"}

RECURSIVE SeqsUpTo(_, _)
SeqsUpTo(S, n) ==
    IF n = 0 THEN {<<>>}
    ELSE LET shorter == SeqsUpTo(S, n - 1)
         IN  shorter \cup {Append(s, x) : s \in {t \in shorter : Len(t) = n - 1}, x \in S}

Min(a, b) == IF a <= b THEN a ELSE b
Max(a, b) == IF a >= b THEN a ELSE b

\* relevance thresholds a direct get_relevant_context call is given
Thresholds == {3, DefaultThreshold}

VARIABLES
    index,            \* the collection: entries in insertion order
    kb,               \* per front end: the update_documents / add_documents call in progress
    ncalls,           \* calls started so far
    lastCall,         \* the call that returned last (history)
    qa,               \* the query in progress: pc, operation, max_chunks, threshold
    asked,            \* the k each type-restricted search was given
    faq_results,      \* get_relevant_context's local faq_results
    meeting_results,  \* get_relevant_context's local meeting_results
    context_items,    \* what get_relevant_context returned
    answer,           \* what answer_question returned
    doc,              \* the document at hand: pc, content, type; the list a sync fetched
    cleaned,          \* what clean_text gave, applied once and twice
    sections,         \* what extract_sections returned
    processed,        \* what process_document / process_all_documents gave
    lookup,           \* the read operation on the index that ran last, and its result
    cache,            \* GoogleDriveClient: the clock, self.cache, the last _get_from_cache
    api,              \* api_service: the globals set at start-up, the request, the response
    cli               \* main.py: the configuration, the arguments, where main() is

writer_vars == <<index, kb, ncalls, lastCall>>
query_vars == <<qa, asked, faq_results, meeting_results, context_items, answer>>
doc_vars == <<doc, cleaned, sections, processed>>
svc_vars == <<lookup, cache, api, cli>>
vars == <<index, kb, ncalls, lastCall, qa, asked, faq_results, meeting_results,
          context_items, answer, doc, cleaned, sections, processed, lookup, cache, api,
          cli>>

IdleCall == [pc |-> "idle", op |-> "none", documents |-> <<>>, batch_size |-> BatchSize,
             i |-> 0, gen |-> 0, alone |-> TRUE, before |-> 0, err |-> "none",
             added |-> <<>>]

InProgress(w) == kb[w].pc \in {"clear", "add", "persist"}

\* the entries a call of generation g makes of a chunk list
Entries(docs, g, from) ==
    [n \in 1..Len(docs) |-> [chunk |-> docs[n], gen |-> g, n |-> from + n]]

\* the entries of the index a given call wrote, in index order
RECURSIVE OfGen(_, _)
OfGen(idx, g) ==
    IF idx = <<>> THEN <<>>
    ELSE IF idx[1].gen = g THEN <<idx[1]>> \o OfGen(Tail(idx), g)
         ELSE OfGen(Tail(idx), g)

\* a call starts: every call in progress elsewhere stops being alone
Started(w, call) ==
    [v \in Writers |->
        IF v = w THEN call
        ELSE IF kb[v].pc # "idle" THEN [kb[v] EXCEPT !.alone = FALSE]
        ELSE kb[v]]

NewCall(w, op, docs, bs) ==
    [pc |-> "idle", op |-> op, documents |-> docs, batch_size |-> bs, i |-> 0,
     gen |-> ncalls + 1, alone |-> \A v \in Writers \ {w} : kb[v].pc = "idle",
     before |-> Len(index), err |-> "none", added |-> <<>>]

\* KnowledgeBase.update_documents is entered
update_documents(w, docs) ==
    /\ kb[w].pc = "idle"
    /\ ncalls < MaxCalls
    /\ kb' = Started(w, [NewCall(w, "update", docs, BatchSize) EXCEPT !.pc = "clear"])
    /\ ncalls' = ncalls + 1
    /\ UNCHANGED <<index, lastCall, query_vars, doc_vars, svc_vars>>

\* the pc add_documents is at after its `if not documents: return`
AddEntry(docs) == IF docs = <<>> THEN "done" ELSE "add"

\* KnowledgeBase.add_documents is called directly
add_documents(w, docs, bs) ==
    /\ kb[w].pc = "idle"
    /\ ncalls < MaxCalls
    /\ kb' = Started(w, [NewCall(w, "add", docs, bs) EXCEPT !.pc = AddEntry(docs)])
    /\ ncalls' = ncalls + 1
    /\ UNCHANGED <<index, lastCall, query_vars, doc_vars, svc_vars>>

\* a collection that keeps its entries when it is deleted
delete_collection_keeps(idx) == idx

\* vector_store.delete_collection(): what is left of the collection
delete_collection(idx) == <<>>

\* clear_knowledge_base: delete_collection and re-initialisation succeed
clear_knowledge_base(w) ==
    /\ kb[w].pc = "clear"
    /\ index' = delete_collection(index)
    /\ kb' = [kb EXCEPT ![w].pc = AddEntry(kb[w].documents)]
    /\ UNCHANGED <<ncalls, lastCall, query_vars, doc_vars, svc_vars>>

\* clear_knowledge_base raises: delete_collection failed (nothing removed) or
\* the re-initialisation after it failed (collection already deleted)
clear_fails(w) ==
    /\ kb[w].pc = "clear"
    /\ \E deleted \in BOOLEAN : index' = IF deleted THEN delete_collection(index) ELSE index
    /\ kb' = [kb EXCEPT ![w].pc = "failed", ![w].err = "clear"]
    /\ UNCHANGED <<ncalls, lastCall, query_vars, doc_vars, svc_vars>>

\* a slice that runs one chunk into the next batch
BatchOneTooFar(c) ==
    SubSeq(c.documents, c.i + 1, Min(c.i + c.batch_size + 1, Len(c.documents)))

\* documents[i:i + batch_size]
Batch(c) == SubSeq(c.documents, c.i + 1, Min(c.i + c.batch_size, Len(c.documents)))

\* one iteration of the batch loop: vector_store.add_documents(batch) succeeds
add_batch(w) ==
    /\ kb[w].pc = "add"
    /\ LET c == kb[w]
           batch == Batch(c)
           next == c.i + c.batch_size
       IN  /\ index' = index \o Entries(batch, c.gen, c.i)
           /\ kb' = [kb EXCEPT ![w].i = next,
                               ![w].added = c.added \o batch,
                               ![w].pc = IF next >= Len(c.documents) THEN "persist" ELSE "add"]
    /\ UNCHANGED <<ncalls, lastCall, query_vars, doc_vars, svc_vars>>

\* an except clause that logs the failed batch and goes on with the next one
add_batch_fails_swallowed(w) ==
    /\ kb[w].pc = "add"
    /\ LET next == kb[w].i + kb[w].batch_size
       IN  kb' = [kb EXCEPT ![w].i = next, ![w].err = "batch",
                            ![w].pc = IF next >= Len(kb[w].documents) THEN "persist" ELSE "add"]
    /\ UNCHANGED <<index, ncalls, lastCall, query_vars, doc_vars, svc_vars>>

\* one iteration of the batch loop: embedding the batch or writing it raises;
\* the except clause logs and re-raises
add_batch_fails(w) ==
    /\ kb[w].pc = "add"
    /\ kb' = [kb EXCEPT ![w].pc = "failed", ![w].err = "batch"]
    /\ UNCHANGED <<index, ncalls, lastCall, query_vars, doc_vars, svc_vars>>

\* vector_store.persist() after the loop
persist(w) ==
    /\ kb[w].pc = "persist"
    /\ kb' = [kb EXCEPT ![w].pc = "done"]
    /\ UNCHANGED <<index, ncalls, lastCall, query_vars, doc_vars, svc_vars>>

persist_fails(w) ==
    /\ kb[w].pc = "persist"
    /\ kb' = [kb EXCEPT ![w].pc = "failed", ![w].err = "persist"]
    /\ UNCHANGED <<index, ncalls, lastCall, query_vars, doc_vars, svc_vars>>

\* the call returns to (or raises into) the front end
call_returns(w) ==
    /\ kb[w].pc \in {"done", "failed"}
    /\ lastCall' = [op |-> kb[w].op, outcome |-> kb[w].pc, left |-> Len(index)]
    /\ kb' = [kb EXCEPT ![w] = IdleCall]
    /\ UNCHANGED <<index, ncalls, query_vars, doc_vars, svc_vars>>

\* ------------------------------------------------------------ query path
IdleQuery == [pc |-> "idle", op |-> "none", max_chunks |-> 0, threshold |-> 0,
              emptied |-> FALSE, faq_failed |-> FALSE, meeting_failed |-> FALSE,
              llm_failed |-> FALSE]
\* the answer of answer_question when no context item came back
InsufficientAnswer ==
    [kind |-> "insufficient", confidence |-> [num |-> 0, den |-> 1], sources |-> <<>>]
\* the answer of answer_question's except clause
ErrorAnswer == [kind |-> "error", confidence |-> [num |-> 0, den |-> 1], sources |-> <<>>]
NoAnswer == [kind |-> "none", confidence |-> [num |-> 0, den |-> 1], sources |-> <<>>]
NotAsked == [faq |-> 0, meeting_notes |-> 0]

\* list.sort(key=score): insertion of x behind every element whose score is
\* not greater (the sort is stable)
RECURSIVE InsertByScore(_, _)
InsertByScore(sorted, x) ==
    IF sorted = <<>> THEN <<x>>
    ELSE IF sorted[1].score <= x.score THEN <<sorted[1]>> \o InsertByScore(Tail(sorted), x)
         ELSE <<x>> \o sorted

RECURSIVE SortByScore(_)
SortByScore(s) ==
    IF s = <<>> THEN <<>>
    ELSE InsertByScore(SortByScore(SubSeq(s, 1, Len(s) - 1)), s[Len(s)])

\* the entries of the index whose metadata pass filter {"document_type": t}
RECURSIVE Filtered(_, _)
Filtered(idx, t) ==
    IF idx = <<>> THEN <<>>
    ELSE IF idx[1].chunk.document_type = t THEN <<idx[1]>> \o Filtered(Tail(idx), t)
         ELSE Filtered(Tail(idx), t)

\* vector_store.similarity_search_with_score(query, k, filter): the k nearest
\* matching entries as (doc, score) pairs, nearest first; rank is the place
\* the index gave the pair
similarity_search_with_score(idx, k, t) ==
    LET hits == Filtered(idx, t)
        pairs == SortByScore([n \in 1..Len(hits) |->
                     [doc |-> hits[n].chunk, score |-> hits[n].chunk.dist]])
        top == SubSeq(pairs, 1, Min(k, Len(pairs)))
    IN  [n \in 1..Len(top) |-> [doc |-> top[n].doc, score |-> top[n].score, rank |-> n]]

\* a search that hands on what the index held although the query failed
search_similar_unguarded(idx, k, t, ok) == similarity_search_with_score(idx, k, t)

\* search_similar (through search_by_document_type): the pairs of the index,
\* or [] when the query raised
search_similar(idx, k, t, ok) ==
    IF ok THEN similarity_search_with_score(idx, k, t) ELSE <<>>

\* a k rounded up instead of down
SearchKCeil(max_chunks) == ((max_chunks + 1) \div 2) + 1

\* the k get_relevant_context passes to search_faqs and search_meeting_notes
SearchK(max_chunks) == (max_chunks \div 2) + 1

\* the two lists concatenated the other way round
all_results_meeting_first(faq, meeting) == SortByScore(meeting \o faq)

\* all_results = faq_results + meeting_results; all_results.sort(key=score)
all_results(faq, meeting) == SortByScore(faq \o meeting)

\* a strict comparison with the threshold
RelevantStrict(score, threshold) == score < threshold

\* score <= relevance_threshold
Relevant(score, threshold) == score <= threshold

RECURSIVE KeepRelevant(_, _)
KeepRelevant(s, threshold) ==
    IF s = <<>> THEN <<>>
    ELSE IF Relevant(s[1].score, threshold) THEN <<s[1]>> \o KeepRelevant(Tail(s), threshold)
         ELSE KeepRelevant(Tail(s), threshold)

\* the loop over all_results[:max_chunks] that keeps the relevant items
relevant_context(faq, meeting, max_chunks, threshold) ==
    LET sorted == all_results(faq, meeting)
    IN  KeepRelevant(SubSeq(sorted, 1, Min(max_chunks, Len(sorted))), threshold)

RECURSIVE SumScores(_)
SumScores(s) == IF s = <<>> THEN 0 ELSE s[1].score + SumScores(Tail(s))

\* a confidence taken from the sum of the scores instead of their mean
ConfidenceOfSum(items) ==
    [num |-> Max(0, One * Len(items) - Len(items) * SumScores(items)),
     den |-> One * Len(items)]

\* avg_relevance = sum(scores) / len(items); confidence = max(0.0, 1.0 - avg),
\* as the fraction (One * len - sum) / (One * len)
Confidence(items) ==
    [num |-> Max(0, One * Len(items) - SumScores(items)), den |-> One * Len(items)]

\* some update_documents call, the only writer since it started, has cleared
\* a non-empty index and has not yet written the first batch of its
\* non-empty list
Rebuilding ==
    \E w \in Writers : /\ kb[w].op = "update" /\ kb[w].pc = "add" /\ kb[w].i = 0
                       /\ kb[w].before > 0 /\ kb[w].alone

\* KnowledgeBase.get_relevant_context is called directly
get_relevant_context(max_chunks, threshold) ==
    /\ qa.pc = "idle"
    /\ qa' = [pc |-> "faq", op |-> "context", max_chunks |-> max_chunks,
              threshold |-> threshold, emptied |-> TRUE, faq_failed |-> FALSE,
              meeting_failed |-> FALSE, llm_failed |-> FALSE]
    /\ UNCHANGED <<doc_vars, svc_vars, writer_vars, asked, faq_results, meeting_results, context_items, answer>>

\* QASystem.answer_question is entered: it calls get_relevant_context with
\* max_chunks = max_context_items and the default threshold
answer_question(max_context_items) ==
    /\ qa.pc = "idle"
    /\ qa' = [pc |-> "faq", op |-> "answer", max_chunks |-> max_context_items,
              threshold |-> DefaultThreshold, emptied |-> TRUE, faq_failed |-> FALSE,
              meeting_failed |-> FALSE, llm_failed |-> FALSE]
    /\ UNCHANGED <<doc_vars, svc_vars, writer_vars, asked, faq_results, meeting_results, context_items, answer>>

\* search_faqs(query, max_chunks // 2 + 1); search_similar returns [] when
\* the search raises
search_faqs ==
    /\ qa.pc = "faq"
    /\ \E ok \in BOOLEAN :
          /\ faq_results' = search_similar(index, SearchK(qa.max_chunks), "faq", ok)
          /\ qa' = [qa EXCEPT !.pc = "meeting", !.emptied = qa.emptied /\ Rebuilding,
                              !.faq_failed = ~ok]
    /\ asked' = [asked EXCEPT !.faq = SearchK(qa.max_chunks)]
    /\ UNCHANGED <<doc_vars, svc_vars, writer_vars, meeting_results, context_items, answer>>

\* search_meeting_notes(query, max_chunks // 2 + 1)
search_meeting_notes ==
    /\ qa.pc = "meeting"
    /\ \E ok \in BOOLEAN :
          /\ meeting_results' =
                search_similar(index, SearchK(qa.max_chunks), "meeting_notes", ok)
          /\ qa' = [qa EXCEPT !.pc = "rank", !.emptied = qa.emptied /\ Rebuilding,
                              !.meeting_failed = ~ok]
    /\ asked' = [asked EXCEPT !.meeting_notes = SearchK(qa.max_chunks)]
    /\ UNCHANGED <<doc_vars, svc_vars, writer_vars, faq_results, context_items, answer>>

\* a test that never takes the early return
NoContextNever(items) == FALSE

\* if not context_items
NoContext(items) == items = <<>>

\* the rest of get_relevant_context, and answer_question's early return
\* when no context came back
rank_context ==
    /\ qa.pc = "rank"
    /\ LET items == relevant_context(faq_results, meeting_results,
                                     qa.max_chunks, qa.threshold)
       IN  /\ context_items' = items
           /\ IF qa.op = "answer" /\ NoContext(items)
              THEN /\ answer' = InsufficientAnswer
                   /\ qa' = [qa EXCEPT !.pc = "done"]
              ELSE /\ answer' = answer
                   /\ qa' = [qa EXCEPT !.pc = IF qa.op = "answer" THEN "llm" ELSE "done"]
    /\ UNCHANGED <<doc_vars, svc_vars, writer_vars, asked, faq_results, meeting_results>>

\* an answer whose first source is written to the index as a new entry
llm_answers_persists ==
    /\ qa.pc = "llm"
    /\ answer' = [kind |-> "answer", confidence |-> Confidence(context_items),
                  sources |-> context_items]
    /\ qa' = [qa EXCEPT !.pc = "done"]
    /\ index' = index \o Entries(<<context_items[1].doc>>, 0, Len(index))
    /\ UNCHANGED <<doc_vars, svc_vars, kb, ncalls, lastCall, asked, faq_results,
                   meeting_results, context_items>>

\* self.llm(prompt) returns: sources and confidence are computed
llm_answers ==
    /\ qa.pc = "llm"
    /\ answer' = [kind |-> "answer", confidence |-> Confidence(context_items),
                  sources |-> context_items]
    /\ qa' = [qa EXCEPT !.pc = "done"]
    /\ UNCHANGED <<doc_vars, svc_vars, writer_vars, asked, faq_results, meeting_results, context_items>>

\* self.llm(prompt) raises and nothing catches it: answer_question is left
\* without a result
llm_fails_propagates ==
    /\ qa.pc = "llm"
    /\ answer' = NoAnswer
    /\ qa' = [qa EXCEPT !.pc = "done", !.llm_failed = TRUE]
    /\ UNCHANGED <<doc_vars, svc_vars, writer_vars, asked, faq_results, meeting_results, context_items>>

\* self.llm(prompt) raises: the except clause of answer_question answers
llm_fails ==
    /\ qa.pc = "llm"
    /\ answer' = ErrorAnswer
    /\ qa' = [qa EXCEPT !.pc = "done", !.llm_failed = TRUE]
    /\ UNCHANGED <<doc_vars, svc_vars, writer_vars, asked, faq_results, meeting_results, context_items>>

\* the query returns to its caller
query_returns ==
    /\ qa.pc = "done"
    /\ qa' = IdleQuery
    /\ asked' = NotAsked
    /\ faq_results' = <<>>
    /\ meeting_results' = <<>>
    /\ context_items' = <<>>
    /\ answer' = NoAnswer
    /\ UNCHANGED <<writer_vars, doc_vars, svc_vars>>

\* ------------------------------------------------- texts and Python's re
\* A text is a sequence of symbols. "nl" is a line break and "sp" a space;
\* "x" is a letter, "d" a digit; "K" stands for one of the header keywords
\* of the meeting pattern (agenda, topics, ... summary), "Q" and "A" for the
\* letters of the labels Q: and A:; ";" is a character outside the allow
\* list of clean_text and "-" the bullet character.
Whitespace == {"nl", "sp"}
Symbols == {"x", "d", "K", "Q", "A", "?", ":", ".", "#", "-", ";", "nl", "sp"}

\* regular expressions as trees
Lit(c) == [op |-> "set", chars |-> {c}]
OneOf(S) == [op |-> "set", chars |-> S]
Dot == [op |-> "set", chars |-> Symbols]
DotNoNewline == [op |-> "set", chars |-> Symbols \ {"nl"}]
Bol == [op |-> "bol"]
Eos == [op |-> "eos"]
Cat(parts) == [op |-> "cat", parts |-> parts]
Alt(parts) == [op |-> "alt", parts |-> parts]
Star(sub) == [op |-> "star", sub |-> sub, greedy |-> TRUE]
LazyStar(sub) == [op |-> "star", sub |-> sub, greedy |-> FALSE]
Plus(sub) == Cat(<<sub, Star(sub)>>)
LazyPlus(sub) == Cat(<<sub, LazyStar(sub)>>)
Group(k, sub) == [op |-> "grp", k |-> k, sub |-> sub]
Ahead(sub) == [op |-> "look", sub |-> sub]

NoSpan == <<0, 0>>
StartAt(p) == [pos |-> p, g |-> <<NoSpan, NoSpan>>]

RECURSIVE Flatten(_)
Flatten(ss) == IF ss = <<>> THEN <<>> ELSE ss[1] \o Flatten(Tail(ss))

\* The ways a pattern matches text t from a state (a position and the
\* spans of the groups so far), in the order a backtracking matcher tries
\* them: the first is the match re takes.
RECURSIVE Match(_, _, _)
RECURSIVE MatchAll(_, _, _)
RECURSIVE MatchCat(_, _, _)
Match(node, t, st) ==
    CASE node.op = "set" ->
            IF st.pos < Len(t) /\ t[st.pos + 1] \in node.chars
            THEN <<[st EXCEPT !.pos = st.pos + 1]>> ELSE <<>>
      [] node.op = "bol" ->
            IF st.pos = 0 \/ t[st.pos] = "nl" THEN <<st>> ELSE <<>>
      [] node.op = "eos" ->
            IF st.pos = Len(t) THEN <<st>> ELSE <<>>
      [] node.op = "cat" -> MatchCat(node.parts, t, <<st>>)
      [] node.op = "alt" ->
            Flatten([n \in 1..Len(node.parts) |-> Match(node.parts[n], t, st)])
      [] node.op = "star" ->
            LET once == SelectSeq(Match(node.sub, t, st), LAMBDA s : s.pos > st.pos)
                more == MatchAll(node, t, once)
            IN  IF node.greedy THEN more \o <<st>> ELSE <<st>> \o more
      [] node.op = "grp" ->
            LET inner == Match(node.sub, t, st)
            IN  [n \in 1..Len(inner) |->
                    [inner[n] EXCEPT !.g[node.k] = <<st.pos, inner[n].pos>>]]
      [] node.op = "look" ->
            IF Match(node.sub, t, st) # <<>> THEN <<st>> ELSE <<>>

MatchAll(node, t, sts) ==
    IF sts = <<>> THEN <<>>
    ELSE Match(node, t, sts[1]) \o MatchAll(node, t, Tail(sts))

MatchCat(parts, t, sts) ==
    IF parts = <<>> THEN sts
    ELSE MatchCat(Tail(parts), t, MatchAll(parts[1], t, sts))

\* text[a:b]
Slice(t, span) == SubSeq(t, span[1] + 1, span[2])

\* re.findall(pattern, text) for a pattern with two groups: the pairs of
\* group texts of the non-overlapping matches, scanning from position p
RECURSIVE FindAllFrom(_, _, _)
FindAllFrom(pattern, t, p) ==
    IF p > Len(t) THEN <<>>
    ELSE LET ways == Match(pattern, t, StartAt(p))
         IN  IF ways = <<>> THEN FindAllFrom(pattern, t, p + 1)
             ELSE <<<<Slice(t, ways[1].g[1]), Slice(t, ways[1].g[2])>>>>
                  \o FindAllFrom(pattern, t,
                                 IF ways[1].pos > p THEN ways[1].pos ELSE p + 1)

findall(pattern, t) == FindAllFrom(pattern, t, 0)

\* str.strip()
RECURSIVE LStrip(_)
LStrip(t) == IF t # <<>> /\ t[1] \in Whitespace THEN LStrip(Tail(t)) ELSE t
RECURSIVE RStrip(_)
RStrip(t) ==
    IF t # <<>> /\ t[Len(t)] \in Whitespace THEN RStrip(SubSeq(t, 1, Len(t) - 1)) ELSE t
strip(t) == LStrip(RStrip(t))

LineStart == Alt(<<Bol, Lit("nl")>>)
Space == OneOf(Whitespace)

\* r'(?:^|\n)(.+\?)\s*\n(.*?)(?=\n.*\?|\n\n|\Z)', MULTILINE | DOTALL
faq_pattern ==
    Cat(<<LineStart, Group(1, Cat(<<Plus(Dot), Lit("?")>>)), Star(Space), Lit("nl"),
          Group(2, LazyStar(Dot)),
          Ahead(Alt(<<Cat(<<Lit("nl"), Star(Dot), Lit("?")>>),
                      Cat(<<Lit("nl"), Lit("nl")>>),
                      Eos>>))>>)

\* (?:Q:|Question:) and (?:A:|Answer:)
QLabel == Cat(<<Lit("Q"), Lit(":")>>)
ALabel == Cat(<<Lit("A"), Lit(":")>>)

\* r'(?:^|\n)(?:Q:|Question:)\s*(.+?)\n(?:A:|Answer:)\s*(.*?)(?=\n(?:Q:|Question:)|\n\n|\Z)'
qa_pattern ==
    Cat(<<LineStart, QLabel, Star(Space), Group(1, LazyPlus(Dot)), Lit("nl"),
          ALabel, Star(Space), Group(2, LazyStar(Dot)),
          Ahead(Alt(<<Cat(<<Lit("nl"), QLabel>>),
                      Cat(<<Lit("nl"), Lit("nl")>>),
                      Eos>>))>>)

\* (?:agenda|topics?|discussion|action items?|decisions?|notes?|summary)
Keyword == Lit("K")

\* the three section_patterns, MULTILINE | DOTALL | IGNORECASE
header_pattern ==
    Cat(<<LineStart, Group(1, Cat(<<Keyword, LazyStar(Dot)>>)), Lit(":"), Star(Space),
          Lit("nl"), Group(2, LazyStar(Dot)),
          Ahead(Alt(<<Cat(<<Lit("nl"), Keyword>>),
                      Cat(<<Lit("nl"), Lit("nl")>>),
                      Eos>>))>>)

numbered_pattern ==
    Cat(<<LineStart,
          Group(1, Cat(<<Plus(Lit("d")), Lit("."), Star(Space), LazyPlus(Dot)>>)),
          Lit("nl"), Group(2, LazyStar(Dot)),
          Ahead(Alt(<<Cat(<<Lit("nl"), Plus(Lit("d")), Lit(".")>>),
                      Cat(<<Lit("nl"), Lit("nl")>>),
                      Eos>>))>>)

\* #{1,3}
Hashes == Cat(<<Lit("#"), Alt(<<Cat(<<Lit("#"), Alt(<<Lit("#"), Cat(<<>>)>>)>>), Cat(<<>>)>>)>>)

markdown_pattern ==
    Cat(<<LineStart, Group(1, Cat(<<Hashes, Star(Space), LazyPlus(Dot)>>)),
          Lit("nl"), Group(2, LazyStar(Dot)),
          Ahead(Alt(<<Cat(<<Lit("nl"), Hashes>>),
                      Cat(<<Lit("nl"), Lit("nl")>>),
                      Eos>>))>>)

section_patterns == <<header_pattern, numbered_pattern, markdown_pattern>>

\* [-*(bullet)]
BulletChar == Lit("-")

\* r'(?:^|\n)((?:[-*(bullet)]\s*.+?)(?:\n[-*(bullet)].*)*)', MULTILINE only:
\* the dot does not match a line break. The lazy .+? takes one character;
\* of a keyword that is its first letter, which no line break follows, so
\* the match ends there (the text K then stands for that letter)
bullet_pattern ==
    Cat(<<LineStart,
          Group(1, Cat(<<BulletChar, Star(Space),
                         Alt(<<Cat(<<OneOf(Symbols \ {"nl", "K"}),
                                     Star(Cat(<<Lit("nl"), BulletChar,
                                                Star(DotNoNewline)>>))>>),
                               Keyword>>)>>))>>)

\* re.sub(pattern, repl, text) for a pattern that matches no empty string:
\* every non-overlapping match, scanning from position p, becomes repl
RECURSIVE SubFrom(_, _, _, _)
SubFrom(pattern, repl, t, p) ==
    IF p >= Len(t) THEN <<>>
    ELSE LET ways == Match(pattern, t, StartAt(p))
         IN  IF ways = <<>> \/ ways[1].pos = p
             THEN <<t[p + 1]>> \o SubFrom(pattern, repl, t, p + 1)
             ELSE repl \o SubFrom(pattern, repl, t, ways[1].pos)

sub(pattern, repl, t) == SubFrom(pattern, repl, t, 0)

\* ------------------------------------------------------ DocumentProcessor
\* the characters the third substitution of clean_text keeps: \w, \s and the
\* listed punctuation; ";" stands for every other character (a semicolon, a
\* curly quote, a dash that is not the hyphen)
Allowed == Symbols \ {";"}

\* r'\s+', r'\n\s*\n' and the negated class of clean_text
whitespace_run == Plus(Space)
empty_line == Cat(<<Lit("nl"), Star(Space), Lit("nl")>>)
special_character == OneOf(Symbols \ Allowed)

\* the pattern argument of each of the two quote substitutions, character by
\* character: r'[""]', and the adjacent literals r'[' and ']' that make []
double_quote_pattern == <<"[", "\"", "\"", "]">>
single_quote_pattern == <<"[", "]">>

\* re's parser takes a "]" that directly follows the opening "[" as a member
\* of the set, so a set ends at a later "]"; without one, compiling the
\* pattern raises re.error (unterminated character set)
TerminatedSet(p) == p[1] = "[" /\ \E n \in 3..Len(p) : p[n] = "]"

Raised == [raised |-> TRUE, text |-> <<>>]
Returned(t) == [raised |-> FALSE, text |-> t]

\* clean_text: the three substitutions, the two quote substitutions (each
\* replaces a straight quote by itself, when its pattern compiles), strip
clean_text(t) ==
    LET spaced == sub(whitespace_run, <<"sp">>, t)
        lines == sub(empty_line, <<"nl">>, spaced)
        kept == sub(special_character, <<>>, lines)
    IN  IF TerminatedSet(double_quote_pattern) /\ TerminatedSet(single_quote_pattern)
        THEN Returned(strip(kept))
        ELSE Raised

\* a section; question and answer are empty where the dictionary has no
\* such keys
Section(content, section_type, title, q, a) ==
    [content |-> content, section_type |-> section_type, title |-> title,
     question |-> q, answer |-> a]

\* [{'content': text, 'section_type': 'general', 'title': title}]
general_section(t, title) == <<Section(t, "general", <<title>>, <<>>, <<>>)>>

\* the loop over the (question, answer) matches: both are stripped, and the
\* pair is appended if neither is empty
RECURSIVE faq_sections(_)
faq_sections(matches) ==
    IF matches = <<>> THEN <<>>
    ELSE LET q == strip(matches[1][1])
             a == strip(matches[1][2])
         IN  (IF q # <<>> /\ a # <<>>
              THEN <<Section(<<"Q", ":", "sp">> \o q \o <<"nl", "A", ":", "sp">> \o a,
                             "faq", q, q, a)>>
              ELSE <<>>) \o faq_sections(Tail(matches))

\* a fallback that is never taken
or_else_never(found, fallback) == found

\* if not sections: sections = fallback
or_else(found, fallback) == IF found = <<>> THEN fallback ELSE found

\* _extract_faq_sections
extract_faq_sections(t) ==
    or_else(or_else(faq_sections(findall(faq_pattern, t)),
                    faq_sections(findall(qa_pattern, t))),
            general_section(t, "FAQ Content"))

\* the loop over the (title, content) matches of one pattern
RECURSIVE meeting_sections(_)
meeting_sections(matches) ==
    IF matches = <<>> THEN <<>>
    ELSE LET title == strip(matches[1][1])
             content == strip(matches[1][2])
         IN  (IF title # <<>> /\ content # <<>>
              THEN <<Section(title \o <<"nl">> \o content, "meeting_section", title,
                             <<>>, <<>>)>>
              ELSE <<>>) \o meeting_sections(Tail(matches))

\* for pattern in section_patterns: the sections of every pattern, appended
\* in the order of the patterns
RECURSIVE every_pattern_sections(_, _)
every_pattern_sections(patterns, t) ==
    IF patterns = <<>> THEN <<>>
    ELSE meeting_sections(findall(patterns[1], t))
         \o every_pattern_sections(Tail(patterns), t)

\* content.split('\n')[0]
RECURSIVE FirstLine(_)
FirstLine(t) ==
    IF t = <<>> \/ t[1] = "nl" THEN <<>> ELSE <<t[1]>> \o FirstLine(Tail(t))

\* [:50] + '...'
TitleLimit == 50
bullet_title(content) ==
    LET line == FirstLine(content)
    IN  SubSeq(line, 1, Min(TitleLimit, Len(line))) \o <<".", ".", ".">>

\* the loop over the bullet matches (the pattern has one group)
RECURSIVE bullet_sections(_)
bullet_sections(matches) ==
    IF matches = <<>> THEN <<>>
    ELSE LET content == strip(matches[1][1])
         IN  (IF content # <<>>
              THEN <<Section(content, "meeting_bullet", bullet_title(content), <<>>, <<>>)>>
              ELSE <<>>) \o bullet_sections(Tail(matches))

\* the sections of the first of the section_patterns that gives any
structured_sections_first(t) ==
    or_else(meeting_sections(findall(section_patterns[1], t)),
            or_else(meeting_sections(findall(section_patterns[2], t)),
                    meeting_sections(findall(section_patterns[3], t))))

\* the sections the loop over section_patterns leaves in `sections`
structured_sections(t) == every_pattern_sections(section_patterns, t)

\* _extract_meeting_sections
extract_meeting_sections(t) ==
    or_else(or_else(structured_sections(t),
                    bullet_sections(findall(bullet_pattern, t))),
            general_section(t, "Meeting Notes"))

\* extract_sections
extract_sections(t, document_type) ==
    IF document_type = "faq" THEN extract_faq_sections(t)
    ELSE IF document_type = "meeting_notes" THEN extract_meeting_sections(t)
    ELSE general_section(t, "Content")

\* text_splitter.split_text(section_content) for a section within
\* chunk_size: one chunk, the section's content (nothing for an empty one)
split_text(content) == IF content = <<>> THEN <<>> ELSE <<content>>

\* the chunks of one section: page_content and the metadata the query path
\* and the claims read; question and answer only for a faq section
section_chunks(section, document_type) ==
    LET pieces == split_text(section.content)
    IN  [i \in 1..Len(pieces) |->
            [page_content |-> pieces[i], document_type |-> document_type,
             section_type |-> section.section_type, section_title |-> section.title,
             chunk_index |-> i - 1, total_chunks |-> Len(pieces),
             question |-> IF section.section_type = "faq" THEN section.question ELSE <<>>,
             answer |-> IF section.section_type = "faq" THEN section.answer ELSE <<>>]]

RECURSIVE all_section_chunks(_, _)
all_section_chunks(secs, document_type) ==
    IF secs = <<>> THEN <<>>
    ELSE section_chunks(secs[1], document_type)
         \o all_section_chunks(Tail(secs), document_type)

\* what process_document passed to extract_sections, if it came to the call
NotHanded == [given |-> FALSE, text |-> <<>>]
Handed(t) == [given |-> TRUE, text |-> t]

NotProcessed == [raised |-> FALSE, chunks |-> <<>>, handed |-> NotHanded]

\* process_document: clean_text, extract_sections, the chunks of every
\* section; an exception of clean_text leaves process_document
process_document(document) ==
    LET cleaned_content == clean_text(document.content)
    IN  IF cleaned_content.raised
        THEN [raised |-> TRUE, chunks |-> <<>>, handed |-> NotHanded]
        ELSE [raised |-> FALSE,
              chunks |-> all_section_chunks(
                             extract_sections(cleaned_content.text, document.type),
                             document.type),
              handed |-> Handed(cleaned_content.text)]

\* process_all_documents: the chunks of every document, in order; the first
\* exception ends it
RECURSIVE process_all_documents(_)
process_all_documents(documents) ==
    IF documents = <<>> THEN [raised |-> FALSE, chunks |-> <<>>]
    ELSE LET first == process_document(documents[1])
             rest == process_all_documents(Tail(documents))
         IN  IF first.raised \/ rest.raised THEN [raised |-> TRUE, chunks |-> <<>>]
             ELSE [raised |-> FALSE, chunks |-> first.chunks \o rest.chunks]

\* the texts: every text of up to MaxText of these symbols, and the examples
TextSymbols == {"x", "?", ":", "-", "#", "K", "nl", "sp"}

\* "What is X?\nX is Y.\n\nWhat is Z?\nZ is W.", a word being one symbol
TwoQuestions == <<"x", "?", "nl", "x", ".", "nl", "nl", "d", "?", "nl", "d", ".">>
\* "Remote work?\nYes, fully remote is allowed.\n"
RemoteWork == <<"x", "?", "nl", "x", ".", "nl">>
\* notes with an "Action Items:" section
ActionItems == <<"K", ":", "nl", "-", "sp", "x", "nl", "-", "sp", "x">>
\* a pair with the labels Q: and A:
LabelledPair == <<"Q", ":", "sp", "x", "nl", "A", ":", "sp", "x", ".">>
\* a keyword header and a markdown header, each with its body
TwoFamilies == <<"K", ":", "nl", "x", "nl", "nl", "#", "x", "nl", "d">>
\* a markdown header inside the body of a keyword header
HeaderInBody == <<"K", ":", "nl", "#", "x", "nl", "d">>
\* two numbered items
NumberedItems == <<"d", ".", "sp", "x", "nl", "x", "nl", "d", ".", "sp", "x", "nl", "d">>
\* a disallowed character between two spaces
BetweenSpaces == <<"x", "sp", ";", "sp", "x">>
Examples == {TwoQuestions, RemoteWork, ActionItems, LabelledPair, TwoFamilies,
             HeaderInBody, NumberedItems, BetweenSpaces}

Texts == SeqsUpTo(TextSymbols, MaxText) \cup Examples

\* the DocumentSyncResponse of POST /sync, or the HTTP 500 it raises
NoResponse == [status |-> 0, success |-> FALSE, documents_processed |-> 0,
               chunks_created |-> 0]
SyncResponse(n_documents, n_chunks) ==
    [status |-> 200, success |-> TRUE, documents_processed |-> n_documents,
     chunks_created |-> n_chunks]
SyncFailed == [NoResponse EXCEPT !.status = 500]

NoDocument == [pc |-> "none", content |-> <<>>, type |-> "general", documents |-> <<>>,
               response |-> NoResponse]
NotCleaned == [once |-> Returned(<<>>), twice |-> Returned(<<>>)]

\* clean_text is applied to the document's content, and again to what it
\* returned
call_clean_text ==
    /\ doc.pc = "new"
    /\ LET once == clean_text(doc.content)
       IN  cleaned' = [once |-> once,
                       twice |-> IF once.raised THEN once ELSE clean_text(once.text)]
    /\ doc' = [doc EXCEPT !.pc = "cleaned"]
    /\ UNCHANGED <<writer_vars, query_vars, svc_vars, sections, processed>>

\* extract_sections is applied to the document's content
call_extract_sections ==
    /\ doc.pc = "new"
    /\ sections' = extract_sections(doc.content, doc.type)
    /\ doc' = [doc EXCEPT !.pc = "extracted"]
    /\ UNCHANGED <<writer_vars, query_vars, svc_vars, cleaned, processed>>

\* process_document is applied to the document
call_process_document ==
    /\ doc.pc = "new"
    /\ processed' = process_document(doc)
    /\ doc' = [doc EXCEPT !.pc = "processed"]
    /\ UNCHANGED <<writer_vars, query_vars, svc_vars, cleaned, sections>>

\* the meeting notes of the end-to-end example
MeetingDocument == [content |-> ActionItems, type |-> "meeting_notes"]
\* the FAQ document and the meeting notes of the end-to-end example
EndToEndDocuments == <<[content |-> RemoteWork, type |-> "faq"], MeetingDocument>>

\* the lists fetch_all_documents hands to a sync: none, the document, the
\* document and the meeting notes
Fetched == {<<>>, <<[content |-> doc.content, type |-> doc.type]>>,
            <<[content |-> doc.content, type |-> doc.type], MeetingDocument>>}

\* the index chunk of a processed chunk
IndexChunk(c) ==
    [document_type |-> c.document_type, dist |-> DefaultThreshold,
     section_type |-> c.section_type, question |-> c.question]

\* POST /sync (and load_documents_background): fetch, process_all_documents,
\* update_documents; an empty fetch returns success at once, and an exception
\* of process_all_documents ends the handler before update_documents (the
\* response after a completed update_documents would be
\* SyncResponse(len(documents), len(processed_chunks)))
sync_documents(w) ==
    /\ doc.pc = "new"
    /\ kb[w].pc = "idle"
    /\ ncalls < MaxCalls
    /\ \E documents \in Fetched :
          LET chunks == process_all_documents(documents)
          IN  IF documents = <<>> \/ chunks.raised
              THEN /\ doc' = [doc EXCEPT !.documents = documents,
                                         !.pc = IF documents = <<>> THEN "synced"
                                                ELSE "sync_failed",
                                         !.response = IF documents = <<>>
                                                      THEN SyncResponse(0, 0)
                                                      ELSE SyncFailed]
                   /\ processed' = chunks
                   /\ UNCHANGED <<kb, ncalls>>
              ELSE /\ doc' = [doc EXCEPT !.documents = documents, !.pc = "updating"]
                   /\ processed' = chunks
                   /\ kb' = Started(w, [NewCall(w, "update",
                                            [n \in 1..Len(chunks.chunks) |->
                                                IndexChunk(chunks.chunks[n])],
                                            BatchSize)
                                        EXCEPT !.pc = "clear"])
                   /\ ncalls' = ncalls + 1
    /\ UNCHANGED <<index, lastCall, query_vars, svc_vars, cleaned, sections>>

\* no read operation has run
NoLookup == [op |-> "none", ok |-> TRUE, id |-> "none", limit |-> 0, result |-> <<>>]
\* the keys and the values of the cache of a GoogleDriveClient
CacheKeys == {"files", "content"}
CacheData == {"v1", "v2"}
NoEntry == [stored |-> FALSE, data |-> "none", timestamp |-> 0]
\* what the last _get_from_cache returned, with the entry it looked at
NoGot == [key |-> "none", at |-> 0, hit |-> FALSE, data |-> "none", entry |-> NoEntry]
\* the cache of a client just constructed
NoCache == [now |-> 0, entries |-> [k \in CacheKeys |-> NoEntry], got |-> NoGot]
\* the bearer tokens of a request, and the values of the API_TOKEN variable
\* of the environment ("none": not set)
Tokens == {"secret", "wrong"}
ApiTokens == {"none", "secret"}
\* the module just imported: the three globals are None, no request has
\* come in
NoRequest == [app |-> "down", API_TOKEN |-> "none",
              google_drive_client |-> FALSE, knowledge_base |-> FALSE,
              qa_system |-> FALSE,
              pc |-> "none", path |-> "none", token |-> "none",
              max_context_items |-> 0, status |-> 0]
\* the configuration validate_config reads: whether OPENAI_API_KEY is set,
\* the credentials file exists, the environment is production, API_TOKEN is
\* set
Configs == [openai_api_key : BOOLEAN, credentials_exist : BOOLEAN,
            is_production : BOOLEAN, api_token : BOOLEAN]
\* the flags of the command line
Arguments == [validate : BOOLEAN, load_docs : BOOLEAN, stats : BOOLEAN,
              question : BOOLEAN, interactive : BOOLEAN]
\* main() has not been entered; exit is the status of sys.exit, -1 while
\* the process runs, 0 also for a return of main
NotStarted == [pc |-> "none",
               config |-> [openai_api_key |-> TRUE, credentials_exist |-> TRUE,
                           is_production |-> FALSE, api_token |-> FALSE],
               args |-> [validate |-> FALSE, load_docs |-> FALSE, stats |-> FALSE,
                         question |-> FALSE, interactive |-> FALSE],
               setup |-> FALSE, exit |-> -1, initialized |-> FALSE,
               loaded |-> FALSE, answered |-> FALSE]

\* ------------------------------------------------------ the HTTP service
\* The globals of api_service are modelled by whether they hold an object.
\* initialize_system assigns them in order and re-raises the first failure;
\* lifespan awaits it before the application accepts requests, so a failure
\* ends the start-up.
lifespan ==
    /\ api.app = "down"
    /\ \E failing \in {"none", "drive", "knowledge_base", "qa"} :
          api' = [api EXCEPT !.google_drive_client = failing # "drive",
                             !.knowledge_base = failing \in {"none", "qa"},
                             !.qa_system = failing = "none",
                             !.app = IF failing = "none" THEN "up" ELSE "exited",
                             !.pc = IF failing = "none" THEN "idle" ELSE "none"]
    /\ UNCHANGED <<writer_vars, query_vars, doc_vars, lookup, cache, cli>>

\* the application object serves requests without the lifespan protocol
\* having run (a test client outside its context manager, a server with
\* lifespan off): the globals still hold None
serve_without_lifespan ==
    /\ api.app = "down"
    /\ api' = [api EXCEPT !.app = "up", !.pc = "idle"]
    /\ UNCHANGED <<writer_vars, query_vars, doc_vars, lookup, cache, cli>>

\* verify_token: the status of the HTTPException it raises, 0 when it
\* returns the credentials
verify_token(expected_token, credentials) ==
    IF expected_token = "none" THEN 500
    ELSE IF credentials # expected_token THEN 401
    ELSE 0

\* the status of an HTTPException(status_code) raised inside the handler's
\* try block: `except Exception` catches it (HTTPException is an Exception)
\* and raises HTTPException(status_code=500)
raised_in_try(status_code) == 500

\* POST /ask: verify_token, then the handler; with a QA system it calls
\* answer_question(question, max_context_items)
ask_question(token, max_context_items) ==
    /\ api.app = "up" /\ api.pc = "idle"
    /\ LET denied == verify_token(api.API_TOKEN, token)
           request == [api EXCEPT !.path = "/ask", !.token = token,
                                  !.max_context_items = max_context_items]
       IN  api' = IF denied # 0
                  THEN [request EXCEPT !.pc = "responded", !.status = denied]
                  ELSE IF ~api.qa_system
                  THEN [request EXCEPT !.pc = "responded", !.status = raised_in_try(503)]
                  ELSE [request EXCEPT !.pc = "asking", !.status = 0]
    /\ UNCHANGED <<writer_vars, query_vars, doc_vars, lookup, cache, cli>>

\* answer_question has returned its dictionary (it catches every exception
\* itself): the QuestionResponse is sent with status 200
ask_responds ==
    /\ api.pc = "asking"
    /\ qa.pc = "done"
    /\ api' = [api EXCEPT !.pc = "responded", !.status = 200]
    /\ qa' = IdleQuery
    /\ asked' = NotAsked
    /\ faq_results' = <<>>
    /\ meeting_results' = <<>>
    /\ context_items' = <<>>
    /\ answer' = NoAnswer
    /\ UNCHANGED <<writer_vars, doc_vars, lookup, cache, cli>>

\* POST /sync: verify_token, then the handler; with a Drive client it goes
\* on to fetch, process and update (sync_documents above)
sync_request(token) ==
    /\ api.app = "up" /\ api.pc = "idle"
    /\ LET denied == verify_token(api.API_TOKEN, token)
           request == [api EXCEPT !.path = "/sync", !.token = token,
                                  !.max_context_items = 0]
       IN  api' = IF denied # 0
                  THEN [request EXCEPT !.pc = "responded", !.status = denied]
                  ELSE IF ~api.google_drive_client
                  THEN [request EXCEPT !.pc = "responded", !.status = raised_in_try(503)]
                  ELSE [request EXCEPT !.pc = "syncing", !.status = 0]
    /\ UNCHANGED <<writer_vars, query_vars, doc_vars, lookup, cache, cli>>

\* the sync handler has ended: its response, or its HTTP 500, is sent
sync_responds ==
    /\ api.pc = "syncing"
    /\ doc.pc \in {"synced", "sync_failed"}
    /\ api' = [api EXCEPT !.pc = "responded", !.status = doc.response.status]
    /\ doc' = [doc EXCEPT !.pc = "new"]
    /\ UNCHANGED <<writer_vars, query_vars, lookup, cache, cli, cleaned, sections, processed>>

\* the client has received the response
response_sent ==
    /\ api.pc = "responded"
    /\ api' = [api EXCEPT !.pc = "idle"]
    /\ UNCHANGED <<writer_vars, query_vars, doc_vars, lookup, cache, cli>>

\* ------------------------------------------------------ the command line
\* validate_config: the dictionary with the keys valid, errors and warnings
validate_config(c) ==
    LET errors == (IF ~c.openai_api_key THEN {"openai_api_key"} ELSE {})
                  \cup (IF ~c.credentials_exist THEN {"google_credentials"} ELSE {})
                  \cup (IF c.is_production /\ ~c.api_token THEN {"api_token"} ELSE {})
        warnings == IF c.is_production THEN {"database_url", "redis_url"} ELSE {}
    IN  [valid |-> errors = {}, errors |-> errors, warnings |-> warnings]

\* the truth value Python gives a dictionary: whether it has a key
truth(dictionary) == DOMAIN dictionary # {}

\* validate_setup: `if not config.validate_config(): return False`, else
\* True; the condition tests the dictionary, not its entry 'valid'
validate_setup(c) == IF ~truth(validate_config(c)) THEN FALSE ELSE TRUE

\* main, up to the initialisation: validate_setup, sys.exit(1) when it
\* returned False, sys.exit(0) after it under --validate
main ==
    /\ cli.pc = "start"
    /\ LET setup == validate_setup(cli.config)
       IN  cli' = IF ~setup
                  THEN [cli EXCEPT !.setup = setup, !.pc = "exited", !.exit = 1]
                  ELSE IF cli.args.validate
                  THEN [cli EXCEPT !.setup = setup, !.pc = "exited", !.exit = 0]
                  ELSE [cli EXCEPT !.setup = setup, !.pc = "initialize"]
    /\ UNCHANGED <<writer_vars, query_vars, doc_vars, lookup, cache, api>>

\* initialize_system: KnowledgeBase() and QASystem(knowledge_base); main
\* exits with 1 when a constructor raises
initialize_system ==
    /\ cli.pc = "initialize"
    /\ \E ok \in BOOLEAN :
          cli' = IF ok THEN [cli EXCEPT !.initialized = TRUE, !.pc = "load"]
                 ELSE [cli EXCEPT !.pc = "exited", !.exit = 1]
    /\ UNCHANGED <<writer_vars, query_vars, doc_vars, lookup, cache, api>>

\* --load-docs: load_documents_from_google_docs returns None when the
\* connection test fails or nothing is fetched; otherwise it processes the
\* documents, and main exits with 1 when that raises
load_documents_from_google_docs ==
    /\ cli.pc = "load"
    /\ \E fetched \in {"unreachable", "nothing", "documents"} :
          LET chunks == process_all_documents(EndToEndDocuments)
          IN  cli' = IF ~cli.args.load_docs \/ fetched # "documents"
                     THEN [cli EXCEPT !.pc = "act"]
                     ELSE IF chunks.raised
                     THEN [cli EXCEPT !.pc = "exited", !.exit = 1]
                     ELSE [cli EXCEPT !.loaded = TRUE, !.pc = "act"]
    /\ UNCHANGED <<writer_vars, query_vars, doc_vars, lookup, cache, api>>

\* the rest of main: --stats, else --question (answer_question returns a
\* dictionary in every case), else --interactive (a session in which
\* questions may be asked), else the help text
main_action ==
    /\ cli.pc = "act"
    /\ \E asked_in_session \in BOOLEAN :
          cli' = [cli EXCEPT !.pc = "returned", !.exit = 0,
                             !.answered = IF cli.args.stats THEN FALSE
                                          ELSE IF cli.args.question THEN TRUE
                                          ELSE cli.args.interactive /\ asked_in_session]
    /\ UNCHANGED <<writer_vars, query_vars, doc_vars, lookup, cache, api>>

\* ------------------------------------------------ reads of the index
\* the documents of a lookup behaviour: an FAQ document and meeting notes
DocumentIds == {"d1", "d2"}
TypeOf(id) == IF id = "d1" THEN "faq" ELSE "meeting_notes"

\* the n-th chunk of the index when it belongs to document id: the type is
\* the document's; every third chunk of the FAQ document is of a general
\* section (no question, no answer); distances go round 0.3, 0.7, 0.9
LookupChunk(id, n) ==
    [document_type |-> TypeOf(id),
     dist |-> IF n % 3 = 1 THEN 3 ELSE IF n % 3 = 2 THEN 7 ELSE 9,
     document_id |-> id,
     section_type |-> IF TypeOf(id) = "faq" THEN (IF n % 3 = 0 THEN "general" ELSE "faq")
                      ELSE "meeting_section"]

\* limit of search_by_metadata when get_document_by_id calls it (k: int = 10)
DefaultLimit == 10

\* the entries whose metadata pass where={"document_id": id}
RECURSIVE WithId(_, _)
WithId(idx, id) ==
    IF idx = <<>> THEN <<>>
    ELSE IF idx[1].chunk.document_id = id THEN <<idx[1]>> \o WithId(Tail(idx), id)
         ELSE WithId(Tail(idx), id)

\* search_by_metadata({"document_id": id}, k): vector_store.get(where, limit=k),
\* or [] when the store raises
search_by_metadata(idx, id, k, ok) ==
    IF ok THEN SubSeq(WithId(idx, id), 1, Min(k, Len(WithId(idx, id)))) ELSE <<>>

\* a type-restricted search that asks the index for one entry more
search_by_document_type_one_more(idx, t, k, ok) == search_similar(idx, k + 1, t, ok)

\* search_by_document_type(query, document_type, k)
search_by_document_type(idx, t, k, ok) == search_similar(idx, k, t, ok)

\* the loop of get_faq_suggestions: a suggestion for every result of a faq
\* section (these carry a question and an answer)
RECURSIVE suggestions(_)
suggestions(results) ==
    IF results = <<>> THEN <<>>
    ELSE (IF results[1].doc.section_type = "faq" THEN <<results[1]>> ELSE <<>>)
         \o suggestions(Tail(results))

\* the number of entries of each document type, as get_collection_stats
\* counts them
CountType(idx, t) == Len(Filtered(idx, t))

\* get_document_by_id(document_id)
get_document_by_id(id) ==
    /\ qa.pc = "idle" /\ lookup.op = "none"
    /\ \E ok \in BOOLEAN :
          lookup' = [op |-> "get_document_by_id", ok |-> ok, id |-> id, limit |-> DefaultLimit,
                     result |-> search_by_metadata(index, id, DefaultLimit, ok)]
    /\ UNCHANGED <<writer_vars, query_vars, doc_vars, cache, api, cli>>

\* get_collection_stats(): the count and the counts by type, {} on failure
get_collection_stats ==
    /\ qa.pc = "idle" /\ lookup.op = "none"
    /\ \E ok \in BOOLEAN :
          lookup' = [op |-> "get_collection_stats", ok |-> ok, id |-> "none", limit |-> 0,
                     result |-> IF ok THEN <<Len(index), CountType(index, "faq"),
                                            CountType(index, "meeting_notes")>>
                                ELSE <<>>]
    /\ UNCHANGED <<writer_vars, query_vars, doc_vars, cache, api, cli>>

\* QASystem.get_faq_suggestions(query, max_suggestions)
get_faq_suggestions(max_suggestions) ==
    /\ qa.pc = "idle" /\ lookup.op = "none"
    /\ \E ok \in BOOLEAN :
          lookup' = [op |-> "get_faq_suggestions", ok |-> ok, id |-> "none",
                     limit |-> max_suggestions,
                     result |-> suggestions(search_by_document_type(
                                                index, "faq", max_suggestions, ok))]
    /\ UNCHANGED <<writer_vars, query_vars, doc_vars, cache, api, cli>>

\* QASystem.search_meeting_topics(topic, max_results)
search_meeting_topics(max_results) ==
    /\ qa.pc = "idle" /\ lookup.op = "none"
    /\ \E ok \in BOOLEAN :
          lookup' = [op |-> "search_meeting_topics", ok |-> ok, id |-> "none",
                     limit |-> max_results,
                     result |-> search_by_document_type(
                                    index, "meeting_notes", max_results, ok)]
    /\ UNCHANGED <<writer_vars, query_vars, doc_vars, cache, api, cli>>

\* the read operation returns to its caller
lookup_returns ==
    /\ lookup.op # "none"
    /\ lookup' = NoLookup
    /\ UNCHANGED <<writer_vars, query_vars, doc_vars, cache, api, cli>>

\* ------------------------------------------- GoogleDriveClient's cache
\* a validity test that still accepts an entry of exactly the expiry age
is_cache_valid_inclusive(c, key) ==
    /\ c.entries[key].stored
    /\ c.now - c.entries[key].timestamp <= CacheExpiry

\* _is_cache_valid: the key is in self.cache and
\* datetime.now() - timestamp < self.cache_expiry
is_cache_valid(c, key) ==
    /\ c.entries[key].stored
    /\ c.now - c.entries[key].timestamp < CacheExpiry

\* time passes
tick ==
    /\ cache.now < MaxTime
    /\ cache' = [cache EXCEPT !.now = cache.now + 1]
    /\ UNCHANGED <<writer_vars, query_vars, doc_vars, lookup, api, cli>>

\* _set_cache(cache_key, data)
set_cache(key, data) ==
    /\ cache' = [cache EXCEPT !.entries[key] =
                     [stored |-> TRUE, data |-> data, timestamp |-> cache.now]]
    /\ UNCHANGED <<writer_vars, query_vars, doc_vars, lookup, api, cli>>

\* _get_from_cache(cache_key): the data of a valid entry, else None
get_from_cache(key) ==
    /\ cache' = [cache EXCEPT !.got =
                     [key |-> key, at |-> cache.now, hit |-> is_cache_valid(cache, key),
                      data |-> IF is_cache_valid(cache, key) THEN cache.entries[key].data
                               ELSE "none",
                      entry |-> cache.entries[key]]]
    /\ UNCHANGED <<writer_vars, query_vars, doc_vars, lookup, api, cli>>

\* self.cache.clear(), as fetch_all_documents(force_refresh=True) does
cache_clear ==
    /\ cache' = [cache EXCEPT !.entries = [k \in CacheKeys |-> NoEntry]]
    /\ UNCHANGED <<writer_vars, query_vars, doc_vars, lookup, api, cli>>

SvcInit ==
    /\ lookup = NoLookup
    /\ cache = NoCache
    /\ api = NoRequest
    /\ cli = NotStarted

DocInit ==
    /\ doc = NoDocument
    /\ cleaned = NotCleaned
    /\ sections = <<>>
    /\ processed = NotProcessed

QueryInit ==
    /\ qa = IdleQuery
    /\ asked = NotAsked
    /\ faq_results = <<>>
    /\ meeting_results = <<>>
    /\ context_items = <<>>
    /\ answer = NoAnswer

Init ==
    /\ index = <<>>
    /\ kb = [w \in Writers |-> IdleCall]
    /\ ncalls = 0
    /\ lastCall = [op |-> "none", outcome |-> "none", left |-> 0]
    /\ QueryInit
    /\ DocInit
    /\ SvcInit

Next ==
    \/ \E w \in Writers, docs \in ChunkLists : update_documents(w, docs)
    \/ \E w \in Writers, docs \in ChunkLists, bs \in 1..MaxBatch :
          add_documents(w, docs, bs)
    \/ \E w \in Writers : clear_knowledge_base(w)
    \/ \E w \in Writers : clear_fails(w)
    \/ \E w \in Writers : add_batch(w)
    \/ \E w \in Writers : add_batch_fails(w)
    \/ \E w \in Writers : persist(w)
    \/ \E w \in Writers : persist_fails(w)
    \/ \E w \in Writers : call_returns(w)

\* The front ends rebuilding and extending the index, no query running.
Spec == Init /\ [][Next]_vars

\* The front ends rebuilding the index through update_documents while
\* answer_question runs in another front end (or another session).
NextRebuild ==
    \/ \E w \in Writers, docs \in ChunkLists : update_documents(w, docs)
    \/ \E w \in Writers : clear_knowledge_base(w)
    \/ \E w \in Writers : clear_fails(w)
    \/ \E w \in Writers : add_batch(w)
    \/ \E w \in Writers : add_batch_fails(w)
    \/ \E w \in Writers : persist(w)
    \/ \E w \in Writers : persist_fails(w)
    \/ \E w \in Writers : call_returns(w)
    \/ answer_question(DefaultMaxContext)
    \/ search_faqs
    \/ search_meeting_notes
    \/ rank_context
    \/ llm_answers
    \/ llm_fails
    \/ query_returns

SpecRebuild == Init /\ [][NextRebuild]_vars

\* A query-only behaviour: the index holds any list of up to MaxIndex chunks
\* (as one completed update_documents leaves it) and no rebuild runs.
InitQA ==
    /\ \E docs \in SeqsUpTo(Chunk, MaxIndex) : index = Entries(docs, 1, 0)
    /\ kb = [w \in Writers |-> IdleCall]
    /\ ncalls = 1
    /\ lastCall = [op |-> "update", outcome |-> "done", left |-> Len(index)]
    /\ QueryInit
    /\ DocInit
    /\ SvcInit

NextQA ==
    \/ \E m \in 0..MaxChunks, t \in Thresholds : get_relevant_context(m, t)
    \/ \E m \in 1..MaxChunks : answer_question(m)
    \/ search_faqs
    \/ search_meeting_notes
    \/ rank_context
    \/ llm_answers
    \/ llm_fails
    \/ query_returns

SpecQA == InitQA /\ [][NextQA]_vars

\* A document-processing behaviour: one document of any of the texts and
\* types is cleaned, cut into sections, processed, or synced into an empty
\* index by a front end.
InitDoc ==
    /\ index = <<>>
    /\ kb = [w \in Writers |-> IdleCall]
    /\ ncalls = 0
    /\ lastCall = [op |-> "none", outcome |-> "none", left |-> 0]
    /\ QueryInit
    /\ \E t \in Texts, ty \in DocumentTypes :
          doc = [pc |-> "new", content |-> t, type |-> ty, documents |-> <<>>,
                 response |-> NoResponse]
    /\ cleaned = NotCleaned
    /\ sections = <<>>
    /\ processed = NotProcessed
    /\ SvcInit

NextDoc ==
    \/ call_clean_text
    \/ call_extract_sections
    \/ call_process_document
    \/ \E w \in Writers : sync_documents(w)

SpecDoc == InitDoc /\ [][NextDoc]_vars

\* A sync behaviour: POST /sync on an index that holds what an earlier
\* update_documents left (any of the chunk lists), the source holding one
\* document of a short text or of an example.
InitSync ==
    /\ \E docs \in ChunkLists :
          /\ index = Entries(docs, 0, 0)
          /\ lastCall = [op |-> "update", outcome |-> "done", left |-> Len(docs)]
    /\ kb = [w \in Writers |-> IdleCall]
    /\ ncalls = 0
    /\ QueryInit
    /\ \E t \in SeqsUpTo(TextSymbols, MaxSyncText) \cup Examples, ty \in DocumentTypes :
          doc = [pc |-> "new", content |-> t, type |-> ty, documents |-> <<>>,
                 response |-> NoResponse]
    /\ cleaned = NotCleaned
    /\ sections = <<>>
    /\ processed = NotProcessed
    /\ SvcInit

NextSync == \E w \in Writers : sync_documents(w)

SpecSync == InitSync /\ [][NextSync]_vars

\* A service behaviour: the module is imported with API_TOKEN set or not, the
\* index holds what an earlier sync left and the source one of two example
\* documents; the application starts, with or without its lifespan, and
\* answers POST /ask and POST /sync requests one after the other.
InitApi ==
    /\ \E docs \in ChunkLists :
          /\ index = Entries(docs, 0, 0)
          /\ lastCall = [op |-> "update", outcome |-> "done", left |-> Len(docs)]
    /\ kb = [w \in Writers |-> IdleCall]
    /\ ncalls = 0
    /\ QueryInit
    /\ \E t \in {RemoteWork, ActionItems}, ty \in DocumentTypes :
          doc = [pc |-> "new", content |-> t, type |-> ty, documents |-> <<>>,
                 response |-> NoResponse]
    /\ cleaned = NotCleaned
    /\ sections = <<>>
    /\ processed = NotProcessed
    /\ lookup = NoLookup
    /\ cache = NoCache
    /\ \E expected_token \in ApiTokens : api = [NoRequest EXCEPT !.API_TOKEN = expected_token]
    /\ cli = NotStarted

NextApi ==
    \/ lifespan
    \/ serve_without_lifespan
    \/ \E token \in Tokens, m \in {1, DefaultMaxContext} : ask_question(token, m)
    \/ api.pc = "asking" /\ answer_question(api.max_context_items)
    \/ search_faqs
    \/ search_meeting_notes
    \/ rank_context
    \/ llm_answers
    \/ llm_fails
    \/ ask_responds
    \/ \E token \in Tokens : sync_request(token)
    \/ api.pc = "syncing" /\ sync_documents("api")
    \/ sync_responds
    \/ response_sent

SpecApi == InitApi /\ [][NextApi]_vars

\* A command-line behaviour: main runs once under any configuration and any
\* combination of flags.
InitMain ==
    /\ index = <<>>
    /\ kb = [w \in Writers |-> IdleCall]
    /\ ncalls = 0
    /\ lastCall = [op |-> "none", outcome |-> "none", left |-> 0]
    /\ QueryInit
    /\ DocInit
    /\ lookup = NoLookup
    /\ cache = NoCache
    /\ api = NoRequest
    /\ \E c \in Configs, a \in Arguments :
          cli = [NotStarted EXCEPT !.pc = "start", !.config = c, !.args = a]

NextMain ==
    \/ main
    \/ initialize_system
    \/ load_documents_from_google_docs
    \/ main_action

SpecMain == InitMain /\ [][NextMain]_vars

\* A read-only behaviour: the index holds up to MaxEntries chunks of the two
\* documents, in any interleaving, and the read operations of KnowledgeBase
\* and QASystem run one after the other.
InitLookup ==
    /\ \E ids \in SeqsUpTo(DocumentIds, MaxEntries) :
          index = Entries([n \in 1..Len(ids) |-> LookupChunk(ids[n], n)], 1, 0)
    /\ kb = [w \in Writers |-> IdleCall]
    /\ ncalls = 1
    /\ lastCall = [op |-> "update", outcome |-> "done", left |-> Len(index)]
    /\ QueryInit
    /\ DocInit
    /\ SvcInit

NextLookup ==
    \/ \E id \in DocumentIds : get_document_by_id(id)
    \/ get_collection_stats
    \/ \E limit \in 1..MaxSuggestions : get_faq_suggestions(limit)
    \/ \E limit \in 1..MaxSuggestions : search_meeting_topics(limit)
    \/ lookup_returns
    \/ lookup.op = "none" /\ answer_question(DefaultMaxContext)
    \/ lookup.op = "none" /\ get_relevant_context(DefaultMaxContext, DefaultThreshold)
    \/ search_faqs
    \/ search_meeting_notes
    \/ rank_context
    \/ llm_answers
    \/ llm_fails
    \/ query_returns

SpecLookup == InitLookup /\ [][NextLookup]_vars

\* The cache of one GoogleDriveClient while time passes.
InitCache ==
    /\ index = <<>>
    /\ kb = [w \in Writers |-> IdleCall]
    /\ ncalls = 0
    /\ lastCall = [op |-> "none", outcome |-> "none", left |-> 0]
    /\ QueryInit
    /\ DocInit
    /\ SvcInit

NextCache ==
    \/ tick
    \/ \E key \in CacheKeys, data \in CacheData : set_cache(key, data)
    \/ \E key \in CacheKeys : get_from_cache(key)
    \/ cache_clear

SpecCache == InitCache /\ [][NextCache]_vars

\* ---------------------------------------------------------------- claims
Done(w) == kb[w].pc = "done"

\* C1: when update_documents(B) has completed without failure, with no other
\* writer at work since it started, the index holds exactly the entries of
\* B: as many as len(B), each written by this call, in B's order; nothing
\* of the list A that an earlier update_documents left is in it.
C1_ReplaceSemantics ==
    \A w \in Writers :
        (kb[w].op = "update" /\ Done(w) /\ kb[w].alone)
            => /\ index = Entries(kb[w].documents, kb[w].gen, 0)
               /\ Len(index) = Len(kb[w].documents)

\* update_documents(B) completed after a completed update_documents(A) had
\* left a non-empty index of another length
C1_Witness ==
    \E w \in Writers :
        /\ kb[w].op = "update" /\ Done(w) /\ kb[w].alone
        /\ lastCall.op = "update" /\ lastCall.outcome = "done"
        /\ kb[w].before > 0 /\ kb[w].documents # <<>>
        /\ Len(kb[w].documents) < kb[w].before

\* C2: when the write of a batch fails in add_documents, the call fails (it
\* does not go on), and - no other writer being at work - the entries of
\* this call in the index are exactly the chunks of the batches before the
\* failed one: nothing of the failed batch or of a later one.
C2_BatchFailure ==
    \A w \in Writers :
        kb[w].err = "batch"
            => /\ kb[w].pc = "failed"
               /\ kb[w].alone =>
                    OfGen(index, kb[w].gen) =
                        Entries(SubSeq(kb[w].documents, 1, kb[w].i), kb[w].gen, 0)

\* a second batch failed after the first was written
C2_Witness ==
    \E w \in Writers :
        /\ kb[w].err = "batch" /\ kb[w].pc = "failed" /\ kb[w].alone
        /\ kb[w].i > 0 /\ kb[w].i < Len(kb[w].documents)
        /\ OfGen(index, kb[w].gen) # <<>>

\* C3: an update_documents that completes after a failed update_documents,
\* with no other writer at work, leaves exactly the entries of its own list
\* in the index, whatever the failed call had left.
C3_RecoveryByRerun ==
    \A w \in Writers :
        (/\ kb[w].op = "update" /\ Done(w) /\ kb[w].alone
         /\ lastCall.op = "update" /\ lastCall.outcome = "failed")
            => index = Entries(kb[w].documents, kb[w].gen, 0)

\* the failed call had left a partly populated index
C3_Witness ==
    \E w \in Writers :
        /\ kb[w].op = "update" /\ Done(w) /\ kb[w].alone
        /\ lastCall.op = "update" /\ lastCall.outcome = "failed"
        /\ kb[w].before > 0 /\ kb[w].documents # <<>>
        /\ index = Entries(kb[w].documents, kb[w].gen, 0)

\* C4: at most one update_documents / add_documents call is in progress on
\* the collection at any time.
C4_SingleWriter == Cardinality({w \in Writers : InProgress(w)}) <= 1

\* C5: a query whose two searches both ran after an update_documents had
\* cleared a non-empty index and before it wrote the first batch of its
\* non-empty list found no entry: its context is empty and answer_question
\* gives the insufficient-information answer.
C5_QuerySeesEmptyIndex ==
    /\ Rebuilding => index = <<>>
    /\ (qa.pc \in {"rank", "llm", "done"} /\ qa.emptied)
          => faq_results = <<>> /\ meeting_results = <<>>
    /\ (qa.pc = "done" /\ qa.emptied)
          => context_items = <<>> /\ answer.kind = "insufficient"

\* such a query has returned while the rebuild is still running
C5_Witness ==
    /\ qa.pc = "done" /\ qa.emptied
    /\ context_items = <<>> /\ answer.kind = "insufficient"
    /\ \E w \in Writers : /\ kb[w].op = "update" /\ InProgress(w)
                          /\ kb[w].before > 0 /\ kb[w].documents # <<>>

\* C6: at every moment of an add_documents call, what the call has added so
\* far is a prefix of its chunk list whose length is a multiple of
\* batch_size or the length of the list; with no other writer at work these
\* are the entries of the call in the index.
C6_BatchesInOrder ==
    \A w \in Writers :
        LET c == kb[w]
        IN  /\ Len(c.added) <= Len(c.documents)
            /\ c.added = SubSeq(c.documents, 1, Len(c.added))
            /\ Len(c.added) % c.batch_size = 0 \/ Len(c.added) = Len(c.documents)
            /\ (c.alone /\ c.pc # "idle") =>
                   OfGen(index, c.gen) = Entries(c.added, c.gen, 0)

\* a call between two of its batches
C6_Witness ==
    \E w \in Writers :
        /\ kb[w].pc = "add" /\ kb[w].alone
        /\ kb[w].added # <<>> /\ Len(kb[w].added) < Len(kb[w].documents)

Ranked == qa.pc \in {"llm", "done"}

\* the distance-sorted merged list without the entries beyond the threshold,
\* cut to its first max_chunks entries
FilterThenTruncate(faq, meeting, max_chunks, threshold) ==
    LET kept == SelectSeq(SortByScore(faq \o meeting), LAMBDA e : e.score <= threshold)
    IN  SubSeq(kept, 1, Min(max_chunks, Len(kept)))

\* C7: for every pair of per-type result lists, threshold and max_chunks >=
\* 0, get_relevant_context returns the first max_chunks entries of the
\* distance-sorted merged list after the entries whose distance exceeds the
\* threshold are removed: at most max_chunks items, none beyond the
\* threshold, an entry at the threshold kept.
C7_FilterThenTruncate ==
    Ranked =>
        /\ context_items = FilterThenTruncate(faq_results, meeting_results,
                                              qa.max_chunks, qa.threshold)
        /\ Len(context_items) <= qa.max_chunks
        /\ \A n \in 1..Len(context_items) : context_items[n].score <= qa.threshold

Scores(s) == [n \in 1..Len(s) |-> s[n].score]

\* distances 0.3, 0.7 and 0.9 came back, threshold 0.7, max_chunks 5: the
\* entry at the threshold is kept and the one beyond it is dropped
C7_Witness ==
    /\ qa.pc = "done" /\ qa.op = "context"
    /\ qa.max_chunks = 5 /\ qa.threshold = DefaultThreshold
    /\ Scores(SortByScore(faq_results \o meeting_results)) = <<3, 7, 9>>
    /\ Scores(context_items) = <<3, 7>>

\* C8: the list get_relevant_context returns is in non-decreasing order of
\* distance; of two items at the same distance an FAQ result precedes a
\* meeting-notes result, and two results of the same search keep the order
\* the index gave them.
C8_SortedAndStable ==
    Ranked =>
        \A i, j \in 1..Len(context_items) :
            i < j =>
                LET a == context_items[i]
                    b == context_items[j]
                IN  /\ a.score <= b.score
                    /\ a.score = b.score =>
                          \/ /\ a.doc.document_type = "faq"
                             /\ b.doc.document_type = "meeting_notes"
                          \/ /\ a.doc.document_type = b.doc.document_type
                             /\ a.rank < b.rank

\* an FAQ item and a meeting-notes item at the same distance were returned,
\* behind a nearer meeting-notes item
C8_Witness ==
    /\ qa.pc = "done"
    /\ Len(context_items) = 3
    /\ context_items[1].doc.document_type = "meeting_notes"
    /\ context_items[1].score < context_items[2].score
    /\ context_items[2].score = context_items[3].score
    /\ context_items[2].doc.document_type = "faq"
    /\ context_items[3].doc.document_type = "meeting_notes"

SearchedFaq == qa.pc \in {"meeting", "rank", "llm", "done"}
SearchedMeeting == qa.pc \in {"rank", "llm", "done"}

\* C9 as stated: for max_chunks >= 1 each of the two searches is asked for
\* ceil(max_chunks / 2) + 1 entries.
C9_AsksCeil ==
    qa.max_chunks >= 1 =>
        /\ SearchedFaq => asked.faq = ((qa.max_chunks + 1) \div 2) + 1
        /\ SearchedMeeting => asked.meeting_notes = ((qa.max_chunks + 1) \div 2) + 1

\* C9, amended: for max_chunks >= 1 (and for 0) each of the two searches is
\* asked for floor(max_chunks / 2) + 1 entries.
C9_AsksFloor ==
    /\ SearchedFaq => asked.faq = (qa.max_chunks \div 2) + 1
    /\ SearchedMeeting => asked.meeting_notes = (qa.max_chunks \div 2) + 1

\* with max_chunks = 5 both searches were asked for 3 entries
C9_Witness ==
    /\ qa.pc = "done" /\ qa.max_chunks = 5
    /\ asked.faq = 3 /\ asked.meeting_notes = 3

InUnitInterval(c) == c.den > 0 /\ 0 <= c.num /\ c.num <= c.den

\* the fraction c equals max(0, 1 - mean of the scores of items)
IsOneMinusMean(c, items) ==
    c.num * (One * Len(items)) = c.den * Max(0, One * Len(items) - SumScores(items))

Answered == qa.pc = "done" /\ qa.op = "answer"

\* C10 as stated: for every outcome of answer_question the confidence is in
\* [0, 1], is 0 when the context is empty and max(0, 1 - mean distance)
\* otherwise.
C10_EveryOutcome ==
    Answered =>
        /\ InUnitInterval(answer.confidence)
        /\ context_items = <<>> => answer.confidence.num = 0
        /\ context_items # <<>> => IsOneMinusMean(answer.confidence, context_items)

\* C10, amended: for every outcome of answer_question the confidence is in
\* [0, 1]; it is 0 when the context is empty and when answer generation
\* failed, and max(0, 1 - mean distance) when an answer was generated.
C10_Confidence ==
    Answered =>
        /\ InUnitInterval(answer.confidence)
        /\ context_items = <<>> => answer.kind = "insufficient" /\ answer.confidence.num = 0
        /\ answer.kind = "error" => answer.confidence.num = 0
        /\ context_items # <<>> =>
              /\ answer.kind \in {"answer", "error"}
              /\ answer.kind = "answer" =>
                    IsOneMinusMean(answer.confidence, context_items)

\* an answer generated from two items at distances 0.3 and 0.7: confidence 0.5
C10_Witness ==
    /\ Answered /\ answer.kind = "answer"
    /\ Scores(context_items) = <<3, 7>>
    /\ answer.confidence.num * 2 = answer.confidence.den

\* C11: whenever answer_question's retrieval yielded no context item, the
\* call returns (it does not raise) the one fixed insufficient-information
\* answer, with confidence 0.0 and no sources, whatever the index holds.
C11_NoContextAnswer ==
    (Answered /\ context_items = <<>>) =>
        /\ answer = InsufficientAnswer
        /\ answer.confidence.num = 0
        /\ answer.sources = <<>>
        /\ ~qa.llm_failed

\* answer_question found the index non-empty and both searches succeeded, but
\* every chunk was farther than the threshold: no context item
C11_Witness ==
    /\ Answered /\ context_items = <<>>
    /\ index # <<>> /\ faq_results # <<>> /\ meeting_results # <<>>
    /\ ~qa.faq_failed /\ ~qa.meeting_failed

C13_GenerationFailure ==
    (Answered /\ qa.llm_failed) =>
        /\ answer = ErrorAnswer
        /\ answer.kind = "error"
        /\ answer.confidence.num = 0
        /\ answer.sources = <<>>

\* generation failed on a context of two items
C13_Witness ==
    /\ Answered /\ qa.llm_failed
    /\ Len(context_items) = 2

\* the sync handler has ended
SyncEnded == doc.pc \in {"synced", "sync_failed"}

\* C14 as stated: after the FAQ document "Remote work?\nYes, fully remote is
\* allowed.\n" and the meeting notes with an "Action Items:" section have
\* been ingested, the index holds a chunk of document type faq and section
\* type faq whose question is "Remote work?".
C14_EndToEnd ==
    (SyncEnded /\ doc.documents = EndToEndDocuments) =>
        \E i \in 1..Len(index) :
            /\ index[i].chunk.document_type = "faq"
            /\ index[i].chunk.section_type = "faq"
            /\ index[i].chunk.question = <<"x", "?">>

Extracted == doc.pc = "extracted"

\* C15 as stated: the FAQ strategy applied to "What is X?\nX is Y.\n\nWhat is
\* Z?\nZ is W." yields exactly two faq sections, ("What is X?", "X is Y.")
\* and ("What is Z?", "Z is W."), in this order.
C15_OneSectionPerPair ==
    (Extracted /\ doc.type = "faq" /\ doc.content = TwoQuestions) =>
        /\ Len(sections) = 2
        /\ \A i \in 1..2 : sections[i].section_type = "faq"
        /\ sections[1].question = <<"x", "?">> /\ sections[1].answer = <<"x", ".">>
        /\ sections[2].question = <<"d", "?">> /\ sections[2].answer = <<"d", ".">>

\* no rule of the strategy of the document's type gave a section
NoFaqRule(t) ==
    /\ faq_sections(findall(faq_pattern, t)) = <<>>
    /\ faq_sections(findall(qa_pattern, t)) = <<>>
NoMeetingRule(t) ==
    /\ \A n \in 1..Len(section_patterns) :
          meeting_sections(findall(section_patterns[n], t)) = <<>>
    /\ bullet_sections(findall(bullet_pattern, t)) = <<>>
NoRule(t, ty) ==
    \/ ty = "general"
    \/ ty = "faq" /\ NoFaqRule(t)
    \/ ty = "meeting_notes" /\ NoMeetingRule(t)

\* t has no "?" and no label Q:
Unmarked(t) ==
    \A n \in 1..Len(t) : t[n] # "?" /\ (t[n] = "Q" => (n = Len(t) \/ t[n + 1] # ":"))

\* C16: extract_sections never returns an empty list, whatever the text and
\* the document type; and when no rule of the chosen strategy gives a
\* section (as for an FAQ text with no "?" and no Q: label) the result is
\* exactly one section, of type general, whose content is the whole text.
C16_NeverEmpty ==
    Extracted =>
        /\ sections # <<>>
        /\ (NoRule(doc.content, doc.type) \/ (doc.type = "faq" /\ Unmarked(doc.content)))
              => /\ Len(sections) = 1
                 /\ sections[1].section_type = "general"
                 /\ sections[1].content = doc.content

\* an FAQ text of four symbols with no "?" and no label came back as one
\* general section
C16_Witness ==
    /\ Extracted /\ doc.type = "faq"
    /\ Len(doc.content) = MaxText /\ Unmarked(doc.content)
    /\ Len(sections) = 1 /\ sections[1].section_type = "general"
    /\ sections[1].content = doc.content

\* the sections of the n-th pattern family
Family(n, t) == meeting_sections(findall(section_patterns[n], t))

\* C17: the meeting-notes strategy puts every match of each of the three
\* pattern families into the result, in family order (a later family runs
\* although an earlier one matched); the bullet fallback gives the result
\* only if the three families gave no section, and the single general
\* section only if the bullet fallback gave none either.
C17_AllFamilies ==
    (Extracted /\ doc.type = "meeting_notes") =>
        LET t == doc.content
            families == Family(1, t) \o Family(2, t) \o Family(3, t)
            bullets == bullet_sections(findall(bullet_pattern, t))
        IN  /\ families # <<>> => sections = families
            /\ (families = <<>> /\ bullets # <<>>) => sections = bullets
            /\ (families = <<>> /\ bullets = <<>>) =>
                  sections = general_section(t, "Meeting Notes")
            /\ \A i \in 1..Len(sections) :
                  /\ sections[i].section_type = "meeting_bullet" => families = <<>>
                  /\ sections[i].section_type = "general" =>
                        families = <<>> /\ bullets = <<>>

\* notes with a keyword header and a markdown header gave the section of
\* the first family and then the section of the third
C17_Witness ==
    /\ Extracted /\ doc.type = "meeting_notes" /\ doc.content = TwoFamilies
    /\ Len(sections) = 2
    /\ sections[1].title = <<"K">> /\ sections[2].title = <<"#", "x">>
    /\ Family(1, doc.content) # <<>> /\ Family(3, doc.content) # <<>>

\* C18 as stated: clean_text is idempotent: for every string s, clean_text
\* returns, and clean_text(clean_text(s)) = clean_text(s).
C18_Idempotent ==
    doc.pc = "cleaned" =>
        /\ ~cleaned.once.raised
        /\ ~cleaned.twice.raised
        /\ cleaned.twice.text = cleaned.once.text

\* C21 as stated: for every fetched document list, after a sync that reports
\* success the index has been replaced by the chunks of that list: its entry
\* count equals chunks_created, and documents_processed is the number of
\* fetched documents.
C21_SyncReplaces ==
    (SyncEnded /\ doc.response.success) =>
        /\ Len(index) = doc.response.chunks_created
        /\ doc.response.documents_processed = Len(doc.documents)

\* the chunks of document id in the index
ChunksOf(id) == WithId(index, id)

\* C22 as stated: get_document_by_id(id) returns every index entry whose
\* document_id is id, however many chunks the document has, and no entry of
\* another document (checked for the calls in which the store answers).
C22_AllChunksOfDocument ==
    (lookup.op = "get_document_by_id" /\ lookup.ok) => lookup.result = ChunksOf(lookup.id)

\* C23: every item get_faq_suggestions(query, limit) returns comes from an
\* entry of document type faq, every item search_meeting_topics(topic, limit)
\* returns from an entry of document type meeting_notes, and each result
\* has at most limit items.
C23_TypeAndLimit ==
    /\ lookup.op = "get_faq_suggestions" =>
          /\ Len(lookup.result) <= lookup.limit
          /\ \A i \in 1..Len(lookup.result) :
                lookup.result[i].doc.document_type = "faq"
    /\ lookup.op = "search_meeting_topics" =>
          /\ Len(lookup.result) <= lookup.limit
          /\ \A i \in 1..Len(lookup.result) :
                lookup.result[i].doc.document_type = "meeting_notes"

\* a search for two FAQ suggestions gave two on an index that holds more
\* FAQ chunks, and meeting notes as well
C23_Witness ==
    /\ CountType(index, "faq") > 2 /\ CountType(index, "meeting_notes") > 2
    /\ lookup.op = "get_faq_suggestions" /\ lookup.limit = 2
    /\ Len(lookup.result) = 2

\* C24: no step of the query path (answer_question, get_relevant_context,
\* search_faqs, search_meeting_notes, get_collection_stats,
\* get_document_by_id, the type-restricted searches), successful or failed,
\* changes the index: no entry is added, removed or rewritten, and no
\* context item or answer is written to it.
C24_ReadsKeepIndex == [][index' = index]_vars

\* answer_question has returned an answer with sources from an index of
\* MaxEntries chunks
C24_Witness ==
    /\ Answered /\ answer.kind = "answer" /\ answer.sources # <<>>
    /\ Len(index) = MaxEntries

\* C25: _get_from_cache returns a stored value for a key only if the value
\* was stored less than the expiry interval before (now - storedAt < ttl),
\* and then it is the value stored last; once now - storedAt >= ttl, and as
\* long as the key is not stored again, the lookup is a miss.
C25_CacheExpiry ==
    cache.got.key # "none" =>
        LET got == cache.got
        IN  /\ got.hit => /\ got.entry.stored
                          /\ got.at - got.entry.timestamp < CacheExpiry
                          /\ got.data = got.entry.data
            /\ (got.entry.stored /\ got.at - got.entry.timestamp >= CacheExpiry)
                  => ~got.hit /\ got.data = "none"
            /\ (got.entry.stored /\ got.at - got.entry.timestamp < CacheExpiry)
                  => got.hit

\* a lookup exactly one expiry interval after the store was a miss, the
\* entry still being in the cache
C25_Witness ==
    /\ cache.got.key # "none" /\ ~cache.got.hit
    /\ cache.got.entry.stored
    /\ cache.got.at - cache.got.entry.timestamp = CacheExpiry
    /\ cache.entries[cache.got.key] = cache.got.entry

\* the index holds the first k chunks of the list of call c, written by c
PrefixOf(c, k) == index = Entries(SubSeq(c.documents, 1, k), c.gen, 0)

\* k chunks are whole batches of call c (the last batch may be short)
BatchAligned(c, k) ==
    \E j \in 0..Len(c.documents) : k = Min(j * c.batch_size, Len(c.documents))

\* C26: while a single update_documents(B) runs on an index that held A -
\* no other writer at work since it started - and after it has failed or
\* completed, the index is all of A (untouched), empty, or a batch-aligned
\* prefix of B; it never holds an entry of A together with an entry of B.
C26_GenerationsNotMixed ==
    \A w \in Writers :
        (kb[w].op = "update" /\ kb[w].pc # "idle" /\ kb[w].alone) =>
            LET c == kb[w]
            IN  /\ \/ /\ OfGen(index, c.gen) = <<>>
                      /\ Len(index) = c.before
                      /\ c.pc = "clear" \/ c.err = "clear"
                   \/ index = <<>>
                   \/ \E k \in 1..Len(c.documents) : BatchAligned(c, k) /\ PrefixOf(c, k)
                /\ \A m, n \in 1..Len(index) :
                      index[m].gen = c.gen => index[n].gen = c.gen

\* update_documents(B), |B| = 3, on an index that held two chunks failed at
\* its second batch: the index is the first batch of B
C26_Witness ==
    \E w \in Writers :
        /\ kb[w].op = "update" /\ kb[w].alone /\ kb[w].before = 2
        /\ kb[w].pc = "failed" /\ kb[w].err = "batch"
        /\ Len(kb[w].documents) = 3
        /\ PrefixOf(kb[w], kb[w].batch_size)

\* the index holds an entry of type t within the threshold of the query
HoldsNear(t) ==
    \E n \in 1..Len(index) : /\ index[n].chunk.document_type = t
                             /\ index[n].chunk.dist <= qa.threshold

\* the number of context items of type t
RECURSIVE ItemsOfType(_, _)
ItemsOfType(items, t) ==
    IF items = <<>> THEN 0
    ELSE (IF items[1].doc.document_type = t THEN 1 ELSE 0) + ItemsOfType(Tail(items), t)

\* no type contributes more than floor(max_chunks / 2) + 1 items
FairShare ==
    \A t \in DocumentTypes : ItemsOfType(context_items, t) <= (qa.max_chunks \div 2) + 1

C28_SingleLineText ==
    doc.pc = "processed" =>
        /\ processed.handed.given
        /\ processed.handed.text = clean_text(doc.content).text
        /\ \A n \in 1..Len(processed.handed.text) :
              /\ processed.handed.text[n] # "nl"
              /\ (processed.handed.text[n] = "sp" /\ n > 1)
                    => processed.handed.text[n - 1] # "sp"

\* the request carried the token the service expects
ValidToken == api.API_TOKEN # "none" /\ api.token = api.API_TOKEN

\* C29 as stated: when the QA system is not initialized, a POST /ask request
\* with a valid token is answered with status 503 and no other status;
\* likewise POST /sync when the Drive client is not initialized.
C29_NotInitialized503 ==
    (api.pc = "responded" /\ ValidToken) =>
        /\ (api.path = "/ask" /\ ~api.qa_system) => api.status = 503
        /\ (api.path = "/sync" /\ ~api.google_drive_client) => api.status = 503

\* C30 as stated: when validate_config reports valid = False, validate_setup
\* returns False and main exits with status 1 before a knowledge base is
\* initialized, a document is loaded or a question is answered.
C30_StopsOnInvalidConfig ==
    (cli.pc \notin {"none", "start"} /\ ~validate_config(cli.config).valid) =>
        /\ ~cli.setup
        /\ cli.pc = "exited" /\ cli.exit = 1
        /\ ~cli.initialized /\ ~cli.loaded /\ ~cli.answered
====
